---- MODULE Spec2Model ----
(***************************************************************************)
(* Model of aktools/core/api.py: the sliding-window RateLimiter, the       *)
(* TTLCache-backed invoke_ak_api and the public/private HTTP handlers.     *)
(* Time is a discrete clock `now`; one unit is an arbitrary fraction of a  *)
(* second, the window, the TTL and the jitter are whole numbers of units.  *)
(***************************************************************************)
EXTENDS Integers, Sequences, FiniteSets, TLC

\* ------------------------------------------------------------- bounds
\* last clock value, requests received, jitter in clock units, and the
\* largest AKTOOLS_RATE_LIMIT_MAX_REQUESTS tried (0..MaxRateLimit)
MaxTime == 3
MaxReqs == 3
MaxJitter == 1
MaxRateLimit == 1

\* ------------------------------------------------- configuration values
\* AKTOOLS_RATE_LIMIT_WINDOW_SECONDS, AKTOOLS_CACHE_MAXSIZE, AKTOOLS_CACHE_TTL:
\* read from the environment at import; small values, in clock units
rate_limit_window_seconds == 2
cache_ttl == 2

Threads == {"t1", "t2"}
NoThread == "none"

\* names the provider may publish (dir(ak)) and the argument strings tried
Ops == {"op1", "op2"}
VolatileOps == {"op2"}
NoArgs == "None"
\* the requests tried: <<item_id, eval_str>>, NoArgs for an empty query
Requests == {<<"op1", NoArgs>>, <<"op1", "a">>, <<"op2", NoArgs>>,
             <<"not_a_real_operation", NoArgs>>}

\* what eval(cmd) can produce: a serialised frame, None, or an exception
Payloads == {"d1"}
NoneResult == "None"
RaiseKeyError == "KeyError"
RaiseOther == "Exception"
EvalResults == Payloads \cup {NoneResult, RaiseKeyError, RaiseOther}

NoHeader == "absent"

VARIABLES
  now,                 \* the clock read by time.time() / the cache timer
  caps,                \* dir(ak): the provider's current capability set
  enable_cache,        \* AKTOOLS_CACHE_ENABLE
  max_requests,        \* rate_limiter.max_requests
  cache_maxsize,       \* AKTOOLS_CACHE_MAXSIZE: api_cache.maxsize
  request_timestamps,  \* rate_limiter.request_timestamps (deque)
  lock,                \* rate_limiter._lock: the holder, or NoThread
  api_cache,           \* TTLCache: entries in least-recently-used order
  pc,                  \* where each worker thread is
  item_id, eval_str,   \* the arguments of the thread's invoke_ak_api call
  wake,                \* end of the thread's time.sleep(total_wait), kept
                       \* as history until the handler returns; 0: no sleep
  res,                 \* the value _fetch() returned, before the store
  granted, called,     \* history: this request recorded a grant / ran eval
  wrote,               \* history: this request changed the cache contents
  response,            \* the HTTP response this step produced, or NoResp
  lastInvoke,          \* history: what the last invoke_ak_api call returned;
                       \* solo: no other call has run since it returned,
                       \* again: it directly followed a call with its key
  storedExp,           \* history: expiry of the last store per key, 0 if none
  evicted,             \* history: keys whose live entry popitem() removed
  grantLog,            \* history: the timestamps acquire() recorded that a
                       \* window ending now or later can still contain
  nreq,                \* requests received so far
  usage,               \* history: the keys stored, by the time they were last
                       \* stored or returned by a lookup, oldest first
  credit,              \* history: grants recorded minus provider calls made
  inCache,             \* the threads that have begun api_cache[key] or
                       \* api_cache[key] = res and not yet finished it
  DEFAULT_BROWSER_HEADERS,  \* the module-level table of default headers
  PROXIES,             \* the module-level proxy table built from the environment
  kwargs,              \* the keyword arguments of the last Session.request
                       \* call as the caller holds them, or NoCall
  sent                 \* what that call handed on to _original_request

\* the state of the request patch
shaper == <<DEFAULT_BROWSER_HEADERS, PROXIES, kwargs, sent>>

core == <<now, caps, enable_cache, max_requests, cache_maxsize, request_timestamps, lock,
          api_cache, pc, item_id, eval_str, wake, res, granted, called,
          wrote, response, lastInvoke, storedExp, evicted, grantLog, nreq, usage, inCache,
          credit>>

vars == <<core, shaper>>

\* ------------------------------------------------------------ helpers
hashkey(id, es) == <<id, es>>
Keys == {hashkey(r[1], r[2]) : r \in {q \in Requests : q[1] \in Ops}}

NoKey == <<"", "">>

NoResp == [outcome |-> "none", status |-> NoHeader, payload |-> NoneResult,
           id |-> "", code |-> 0, granted |-> FALSE, called |-> FALSE,
           wrote |-> FALSE]

NoInvoke == [key |-> NoKey, payload |-> NoneResult, status |-> NoHeader,
             solo |-> FALSE, again |-> FALSE]

\* --------------------------------------------------- request shaping
\* a dict is a function from its keys; absent and None arguments are told
\* apart from a dict by the `given` field
EmptyDict == <<>>
Dicts(fields, values) ==
  UNION {[ks -> values] : ks \in SUBSET fields}
Absent == [given |-> "absent", map |-> EmptyDict]
None == [given |-> "None", map |-> EmptyDict]
Given(d) == [given |-> "dict", map |-> d]

\* CHROME_USER_AGENT and the entries of DEFAULT_BROWSER_HEADERS (two of the
\* thirteen are kept)
CHROME_USER_AGENT == "Chrome/120"
BrowserDefaults == [k \in {"Accept", "Connection"} |->
                     IF k = "Accept" THEN "text/html" ELSE "keep-alive"]

\* the header dicts a caller may pass: header names are dict keys, told
\* apart by case, and "X-Token" is a name the defaults do not have
CallerFields == {"User-Agent", "user-agent", "Accept", "X-Token"}
CallerValues == {"c1", "c2"}
HeaderArgs == {Absent, None} \cup
              {Given(d) : d \in Dicts(CallerFields, CallerValues)}

\* the module-level PROXIES and the proxies a caller may pass
NoProxies == EmptyDict
EnvProxies == [k \in {"http", "https"} |-> "env-proxy"]
ProxyArgs == {Absent, None, Given([k \in {"http"} |-> "own-proxy"])}

NoCall == [headers |-> Absent, proxies |-> Absent, called |-> FALSE]

\* faulty variant: no copy is taken, the result is the shared table itself
alias(d) == [new |-> d, aliased |-> TRUE]

\* DEFAULT_BROWSER_HEADERS.copy(): a new dict with the same entries, so that
\* writes to it do not reach the table
copy(d) == [new |-> d, aliased |-> FALSE]

\* d[k] = v
setkey(d, k, v) == [x \in DOMAIN d \cup {k} |-> IF x = k THEN v ELSE d[x]]

\* faulty variant: the entries already present win
UpdateKeepingOwn(d, other) ==
  [x \in DOMAIN d \cup DOMAIN other |-> IF x \in DOMAIN d THEN d[x] ELSE other[x]]

\* dict.update(other): the entries of other win
update(d, other) ==
  [x \in DOMAIN d \cup DOMAIN other |-> IF x \in DOMAIN other THEN other[x] ELSE d[x]]

\* get_browser_headers(): the dict returned, and the shared table afterwards
\* (an aliased table has received every write made to the result)
get_browser_headers(table) ==
  LET c == copy(table)
      headers == setkey(c.new, "User-Agent", CHROME_USER_AGENT)
  IN  [headers |-> headers, aliased |-> c.aliased]

\* ------------------------------------------------------- RateLimiter
RECURSIVE _clean_old_requests(_, _)
_clean_old_requests(ts, current_time) ==
  IF ts # <<>> /\ Head(ts) < current_time - rate_limit_window_seconds
    THEN _clean_old_requests(Tail(ts), current_time)
    ELSE ts

\* acquire(): the test that sends the caller into the waiting branch
WindowFull(ts) == Len(ts) >= max_requests

\* faulty variant: the window length is left out of the wait
WaitTimeNoWindow(ts, current_time) == Head(ts) - current_time

\* acquire(): wait_time = (oldest_request + window_seconds) - current_time
wait_time(ts, current_time) ==
  (Head(ts) + rate_limit_window_seconds) - current_time

MustSleep(ts, current_time) == wait_time(ts, current_time) > 0

Jitters == 1..MaxJitter

\* get_remaining_requests(): the value returned, read at time current_time
RemainingRequests(ts, current_time) ==
  LET left == max_requests - Len(_clean_old_requests(ts, current_time))
  IN  IF left > 0 THEN left ELSE 0

\* ---------------------------------------------------------- TTLCache
CacheKeys(c) == {c[i].key : i \in DOMAIN c}
EntryOf(c, k) == c[CHOOSE i \in DOMAIN c : c[i].key = k]
Without(c, k) == SelectSeq(c, LAMBDA e : e.key # k)

\* faulty variant: the entry expires one unit before its TTL has elapsed
ExpiredEarly(time, expires) == ~(time + 1 < expires)

\* faulty variant: the entry is still served at the instant its TTL has elapsed
ExpiredLate(time, expires) == time > expires

\* TTLCache: an entry is expired when not (timer() < link.expires)
Expired(time, expires) == ~(time < expires)

\* faulty variant: a lookup takes the entry out of the cache
AfterGetDrop(c, k) == Without(c, k)

\* faulty variant: a lookup leaves the order alone (first in, first out)
AfterGetNoMove(c, k) == c

\* TTLCache.__getlink: a lookup moves the key to the end of the LRU order
move_to_end(c, k) == Without(c, k) \o <<EntryOf(c, k)>>

\* TTLCache.expire(time)
expire(c, time) == SelectSeq(c, LAMBDA e : ~Expired(time, e.expires))

\* api_cache[key]: TRUE when the lookup returns a value (no KeyError)
IsHit(c, k, time) == k \in CacheKeys(c) /\ ~Expired(time, EntryOf(c, k).expires)

AfterGet(c, k) == IF k \in CacheKeys(c) THEN move_to_end(c, k) ELSE c

\* Cache.__setitem__: while currsize + size > maxsize: popitem()
RECURSIVE popitems(_)
popitems(c) == IF Len(c) + 1 > cache_maxsize /\ c # <<>>
                 THEN popitems(Tail(c)) ELSE c

\* api_cache[key] = value
setitem(c, k, v, time) ==
  LET live == expire(c, time)
      kept == IF k \in CacheKeys(live) THEN Without(live, k) ELSE popitems(live)
  IN  kept \o <<[key |-> k, value |-> v, expires |-> time + cache_ttl]>>

\* the key -> (value, expires) content of the cache, order left out
Contents(c) == {c[i] : i \in DOMAIN c}

\* ------------------------------------------------------------- Init
\* the module has been imported: limiter and cache are constructed and empty
Start ==
  /\ now = 0
  /\ caps = Ops
  /\ request_timestamps = <<>>
  /\ lock = NoThread
  /\ api_cache = <<>>
  /\ pc = [t \in Threads |-> "idle"]
  /\ item_id = [t \in Threads |-> ""]
  /\ eval_str = [t \in Threads |-> NoArgs]
  /\ wake = [t \in Threads |-> 0]
  /\ res = [t \in Threads |-> NoneResult]
  /\ granted = [t \in Threads |-> FALSE]
  /\ called = [t \in Threads |-> FALSE]
  /\ wrote = [t \in Threads |-> FALSE]
  /\ response = NoResp
  /\ lastInvoke = NoInvoke
  /\ storedExp = [k \in Keys |-> 0]
  /\ evicted = {}
  /\ grantLog = <<>>
  /\ nreq = 0
  /\ usage = <<>>
  /\ inCache = {}
  /\ credit = 0
  /\ DEFAULT_BROWSER_HEADERS = BrowserDefaults
  /\ kwargs = NoCall
  /\ sent = NoCall

\* the configuration read from the environment: any switch, any small limit
Init ==
  /\ Start
  /\ enable_cache \in BOOLEAN
  /\ max_requests \in 0..MaxRateLimit
  /\ cache_maxsize = 1
  /\ PROXIES = NoProxies

\* --------------------------------------------------- HTTP responses
OthersIdle(t) == \A u \in Threads \ {t} : pc[u] = "idle"

\* the handler returns: the thread's locals are gone and it is idle again
Return(t) ==
  /\ pc' = [pc EXCEPT ![t] = "idle"]
  /\ item_id' = [item_id EXCEPT ![t] = ""]
  /\ eval_str' = [eval_str EXCEPT ![t] = NoArgs]
  /\ res' = [res EXCEPT ![t] = NoneResult]
  /\ granted' = [granted EXCEPT ![t] = FALSE]
  /\ called' = [called EXCEPT ![t] = FALSE]
  /\ wrote' = [wrote EXCEPT ![t] = FALSE]
  /\ wake' = [wake EXCEPT ![t] = 0]

\* JSONResponse(status_code, content, headers): g, c, w are the history of
\* the request (a grant was recorded, eval ran, the cache content changed)
JSONResponse(t, outcome, status, payload, code, g, c, w) ==
  /\ response' = [outcome |-> outcome, status |-> status, payload |-> payload,
                  id |-> item_id[t], code |-> code, granted |-> g,
                  called |-> c, wrote |-> w]
  /\ Return(t)

\* the handler's tail: temp_df is None -> 404 with the header, else 200;
\* invoke_ak_api returned (value, cache_status)
RespondResult(t, value, cache_status, g, c, w) ==
  /\ IF value = NoneResult
       THEN JSONResponse(t, "EmptyResult", cache_status, value, 404, g, c, w)
       ELSE JSONResponse(t, "Success", cache_status, value, 200, g, c, w)
  /\ lastInvoke' = [key |-> hashkey(item_id[t], eval_str[t]), payload |-> value,
                    status |-> cache_status, solo |-> OthersIdle(t),
                    again |-> lastInvoke.solo /\ OthersIdle(t) /\
                              lastInvoke.key = hashkey(item_id[t], eval_str[t])]

\* except KeyError as e: 404, no header
RespondKeyError(t, g, c, w) ==
  /\ JSONResponse(t, "InvalidParameters", NoHeader, NoneResult, 404, g, c, w)
  /\ lastInvoke' = NoInvoke

\* any other exception leaves the handler: the framework answers 500
RespondException(t, outcome, g, c, w) ==
  /\ JSONResponse(t, outcome, NoHeader, NoneResult, 500, g, c, w)
  /\ lastInvoke' = NoInvoke

\* history: key k was used just now; only the keys still stored are kept
Used(u, k, stored) ==
  SelectSeq(u, LAMBDA x : x # k /\ x \in stored) \o <<k>>

\* whether this step changed the key -> (value, expires) content
Changed(old, new) == Contents(new) # Contents(old)

\* ------------------------------------------------------------ actions
\* the clock advances; history about stores whose TTL has elapsed is dropped
Advance ==
  /\ now' = now + 1
  /\ storedExp' = [k \in Keys |-> IF storedExp[k] <= now + 1 THEN 0 ELSE storedExp[k]]
  /\ evicted' = {k \in evicted : storedExp[k] > now + 1}
  /\ grantLog' = SelectSeq(grantLog,
                   LAMBDA g : g >= now + 1 - rate_limit_window_seconds)
  /\ response' = NoResp
  /\ UNCHANGED <<caps, enable_cache, max_requests, cache_maxsize, request_timestamps, lock,
                 api_cache, pc, item_id, eval_str, wake, res, granted, called,
                 wrote, lastInvoke, nreq, usage, inCache, credit, shaper>>

\* time passes, up to the last clock value tried
Tick == now < MaxTime /\ Advance

\* time passes beyond that value as long as a thread is in time.sleep(): a
\* sleep always ends
SleepTick ==
  /\ now >= MaxTime
  /\ \E t \in Threads : pc[t] = "sleep" /\ now < wake[t]
  /\ Advance

\* dir(ak) is evaluated afresh by every request: a name may appear or vanish
ProviderChange(id) ==
  /\ caps' = IF id \in caps THEN caps \ {id} ELSE caps \cup {id}
  /\ UNCHANGED <<now, enable_cache, max_requests, cache_maxsize, request_timestamps, lock,
                 api_cache, pc, item_id, eval_str, wake, res, granted, called,
                 wrote, lastInvoke, storedExp,
                 evicted, grantLog, nreq, usage, inCache, credit, shaper>>
  /\ response' = NoResp

\* faulty variant: the capability set is read once, at startup
KnownAtStartup(id) == id \in Ops

\* the handler's first test: item_id not in interface_list
KnownOperation(id) == id \in caps

\* both handlers: the membership test, then the call of invoke_ak_api
root(t, id, es) ==
  /\ pc[t] = "idle"
  /\ nreq < MaxReqs
  /\ nreq' = nreq + 1
  /\ IF ~KnownOperation(id)
       THEN /\ response' = [outcome |-> "UnknownOperation", status |-> NoHeader,
                            payload |-> NoneResult, id |-> id, code |-> 404,
                            granted |-> FALSE, called |-> FALSE, wrote |-> FALSE]
            /\ UNCHANGED <<pc, item_id, eval_str, lastInvoke>>
       ELSE /\ pc' = [pc EXCEPT ![t] = "invoke"]
            /\ item_id' = [item_id EXCEPT ![t] = id]
            /\ eval_str' = [eval_str EXCEPT ![t] = es]
            /\ lastInvoke' = IF OthersIdle(t) THEN lastInvoke
                             ELSE [lastInvoke EXCEPT !.solo = FALSE]
            /\ response' = NoResp
  /\ UNCHANGED <<now, caps, enable_cache, max_requests, cache_maxsize, request_timestamps,
                 lock, api_cache, wake, res, granted, called, wrote, storedExp,
                 evicted, grantLog, usage, inCache, credit, shaper>>

public_root(t, id, es) == root(t, id, es)

private_root(t, id, es) == root(t, id, es)

\* the thread begins a TTLCache method on the shared cache, the lookup
\* api_cache[key] or the store api_cache[key] = res: invoke_ak_api takes no
\* lock around either and TTLCache has none of its own
cache_enter(t) ==
  /\ \/ pc[t] = "invoke" /\ enable_cache
     \/ pc[t] = "store"
  /\ t \notin inCache
  /\ inCache' = inCache \cup {t}
  /\ UNCHANGED <<credit, shaper>>
  /\ response' = NoResp
  /\ UNCHANGED <<now, caps, enable_cache, max_requests, cache_maxsize,
                 request_timestamps, lock, api_cache, pc, item_id, eval_str,
                 wake, res, granted, called, wrote, lastInvoke, storedExp,
                 evicted, grantLog, nreq, usage>>

\* faulty variant: the enable_cache switch is ignored
CacheAlwaysOn == TRUE

\* invoke_ak_api: if not enable_cache
CacheInUse == enable_cache

\* invoke_ak_api up to the first lookup: DISABLED path, HIT, or KeyError
invoke_ak_api(t) ==
  /\ pc[t] = "invoke"
  /\ LET key == hashkey(item_id[t], eval_str[t]) IN
       IF ~CacheInUse
         THEN /\ pc' = [pc EXCEPT ![t] = "acquire"]
              /\ response' = NoResp
              /\ UNCHANGED <<api_cache, lastInvoke, item_id, eval_str,
                             res, granted, called, wrote, wake, usage>>
         ELSE /\ api_cache' = AfterGet(api_cache, key)
              /\ IF IsHit(api_cache, key, now)
                   THEN /\ RespondResult(t, EntryOf(api_cache, key).value,
                             "HIT", granted[t], called[t],
                             wrote[t] \/ Changed(api_cache, api_cache'))
                        /\ usage' = Used(usage, key, CacheKeys(api_cache))
                   ELSE /\ pc' = [pc EXCEPT ![t] = "acquire"]
                        /\ wrote' = [wrote EXCEPT ![t] =
                                       @ \/ Changed(api_cache, api_cache')]
                        /\ response' = NoResp
                        /\ UNCHANGED <<lastInvoke, item_id, eval_str,
                                       res, granted, called, wake, usage>>
  /\ inCache' = inCache \ {t}
  /\ UNCHANGED <<credit, shaper>>
  /\ UNCHANGED <<now, caps, enable_cache, max_requests, cache_maxsize,
                 request_timestamps, lock, storedExp, evicted, grantLog, nreq>>

\* acquire(): the timestamp is appended and the lock released
Grant(t, ts, current_time) ==
  /\ request_timestamps' = Append(ts, current_time)
  /\ grantLog' = Append(grantLog, current_time)
  /\ credit' = credit + 1
  /\ granted' = [granted EXCEPT ![t] = TRUE]
  /\ lock' = NoThread
  /\ pc' = [pc EXCEPT ![t] = "remaining"]
  /\ response' = NoResp /\ UNCHANGED <<lastInvoke, item_id, eval_str, res, called, wrote>>

\* acquire() from taking the lock to the grant, the sleep or the IndexError
acquire(t, jitter) ==
  /\ pc[t] = "acquire"
  /\ lock = NoThread
  /\ LET current_time == now
         ts == _clean_old_requests(request_timestamps, current_time)
     IN  IF WindowFull(ts)
           THEN IF ts = <<>>
                  THEN \* request_timestamps[0] on an empty deque: IndexError
                       /\ request_timestamps' = ts
                       /\ RespondException(t, "InternalError", granted[t],
                                           called[t], wrote[t])
                       /\ UNCHANGED <<lock, grantLog, credit>>
                  ELSE IF MustSleep(ts, current_time)
                         THEN /\ request_timestamps' = ts
                              /\ lock' = t
                              /\ wake' = [wake EXCEPT ![t] =
                                   current_time + wait_time(ts, current_time) + jitter]
                              /\ pc' = [pc EXCEPT ![t] = "sleep"]
                              /\ response' = NoResp /\ UNCHANGED <<lastInvoke, item_id,
                                             eval_str, res, granted, called,
                                             wrote, grantLog, credit>>
                         ELSE /\ Grant(t, ts, current_time)
                              /\ UNCHANGED wake
           ELSE /\ Grant(t, ts, current_time)
                /\ UNCHANGED wake
  /\ UNCHANGED <<now, caps, enable_cache, max_requests, cache_maxsize, api_cache, storedExp,
                 evicted, nreq, usage, inCache, shaper>>

\* acquire() after time.sleep(total_wait): re-read the clock, re-purge, grant
acquire_wake(t) ==
  /\ pc[t] = "sleep"
  /\ lock = t
  /\ now >= wake[t]
  /\ Grant(t, _clean_old_requests(request_timestamps, now), now)
  /\ UNCHANGED wake
  /\ UNCHANGED <<now, caps, enable_cache, max_requests, cache_maxsize, api_cache, storedExp,
                 evicted, nreq, usage, inCache, shaper>>

\* get_remaining_requests: with self._lock
LockFreeFor(t) == lock = NoThread

\* _fetch(): the logging call evaluates rate_limiter.get_remaining_requests()
get_remaining_requests(t) ==
  /\ pc[t] = "remaining"
  /\ LockFreeFor(t)
  /\ request_timestamps' = _clean_old_requests(request_timestamps, now)
  /\ pc' = [pc EXCEPT ![t] = "eval"]
  /\ UNCHANGED <<now, caps, enable_cache, max_requests, cache_maxsize, lock, api_cache,
                 item_id, eval_str, wake, res, granted, called, wrote,
                 lastInvoke, storedExp,
                 evicted, grantLog, nreq, usage, inCache, credit, shaper>>
  /\ response' = NoResp

\* faulty variant: a failed fetch is remembered as an empty result
CacheAfterRaiseStored(c, k, time) == setitem(c, k, NoneResult, time)

\* the except KeyError block of invoke_ak_api when _fetch() raises: the
\* exception leaves the block before api_cache[key] = res is reached
CacheAfterRaise(c, k, time) == c

\* faulty variant: a provider call that raised is tried a second time
EvalRunsWithRetry(r) == IF r \in {RaiseKeyError, RaiseOther} THEN 2 ELSE 1

\* _fetch(): eval(cmd) stands once in the body, outside any loop, so it runs
\* once per call of _fetch() whatever it produces
EvalRuns(r) == 1

\* _fetch(): eval(cmd) and what follows from its result
fetch_eval(t, r) ==
  /\ pc[t] = "eval"
  /\ credit' = credit - EvalRuns(r)
  /\ LET key == hashkey(item_id[t], eval_str[t])
         c == CacheAfterRaise(api_cache, key, now)
     IN  IF r = RaiseKeyError
           THEN /\ api_cache' = c
                /\ RespondKeyError(t, granted[t], TRUE,
                                   wrote[t] \/ Changed(api_cache, c))
           ELSE IF r = RaiseOther
             THEN /\ api_cache' = c
                  /\ RespondException(t, "ProviderFailure", granted[t], TRUE,
                                      wrote[t] \/ Changed(api_cache, c))
             ELSE IF ~CacheInUse
               THEN /\ RespondResult(t, r, "DISABLED", granted[t], TRUE, wrote[t])
                    /\ UNCHANGED api_cache
               ELSE /\ res' = [res EXCEPT ![t] = r]
                    /\ called' = [called EXCEPT ![t] = TRUE]
                    /\ pc' = [pc EXCEPT ![t] = "store"]
                    /\ response' = NoResp
                    /\ UNCHANGED <<api_cache, lastInvoke, item_id, eval_str,
                                   granted, wrote, wake>>
  /\ UNCHANGED <<now, caps, enable_cache, max_requests, cache_maxsize, request_timestamps,
                 lock, storedExp, evicted, grantLog, nreq, usage, inCache,
                 shaper>>

\* faulty variant: the value stored is not the value returned to the caller
StoreOtherValue(c, k, v, time) ==
  setitem(c, k, IF v = NoneResult THEN "d1" ELSE NoneResult, time)

\* faulty variant: a store does not replace an entry that is still valid
StoreKeepFirst(c, k, v, time) ==
  IF IsHit(c, k, time) THEN c ELSE setitem(c, k, v, time)

\* what invoke_ak_api writes after _fetch() returned res
StoreInto(c, k, v, time) == setitem(c, k, v, time)

\* except KeyError: api_cache[key] = res; return res, "MISS"
store(t) ==
  /\ pc[t] = "store"
  /\ LET key == hashkey(item_id[t], eval_str[t])
         new == StoreInto(api_cache, key, res[t], now)
     IN  /\ api_cache' = new
         /\ storedExp' = [storedExp EXCEPT ![key] = now + cache_ttl]
         /\ evicted' = (evicted \ {key}) \cup
              {k \in CacheKeys(expire(api_cache, now)) \ {key} :
                 k \notin CacheKeys(new)}
         /\ RespondResult(t, res[t], "MISS", granted[t], called[t],
                          wrote[t] \/ Changed(api_cache, new))
         /\ usage' = Used(usage, key, CacheKeys(new))
  /\ inCache' = inCache \ {t}
  /\ UNCHANGED <<credit, shaper>>
  /\ UNCHANGED <<now, caps, enable_cache, max_requests, cache_maxsize,
                 request_timestamps, lock, grantLog, nreq>>

\* requests.Session.request as patched: headers, then proxies, then the
\* call of _original_request (the random delay changes no state)
_patched_request(h, p) ==
  LET browser == get_browser_headers(DEFAULT_BROWSER_HEADERS)
      headers == IF h.given \in {"absent", "None"}
                   THEN browser.headers
                   ELSE update(browser.headers, h.map)
      proxies == IF PROXIES # EmptyDict /\ p.given \in {"absent", "None"}
                   THEN Given(PROXIES) ELSE p
  IN  /\ kwargs' = [headers |-> h, proxies |-> p, called |-> TRUE]
      /\ sent' = [headers |-> Given(headers), proxies |-> proxies,
                  called |-> TRUE]
      /\ DEFAULT_BROWSER_HEADERS' =
           IF browser.aliased THEN headers ELSE DEFAULT_BROWSER_HEADERS
      /\ UNCHANGED <<core, PROXIES>>

Next ==
  \/ Tick
  \/ \E id \in VolatileOps : ProviderChange(id)
  \/ \E t \in Threads, r \in Requests : public_root(t, r[1], r[2])
  \/ \E t \in Threads, r \in Requests : private_root(t, r[1], r[2])
  \/ \E t \in Threads : invoke_ak_api(t)
  \/ \E t \in Threads, j \in Jitters : acquire(t, j)
  \/ \E t \in Threads : acquire_wake(t)
  \/ \E t \in Threads : get_remaining_requests(t)
  \/ \E t \in Threads, r \in EvalResults : fetch_eval(t, r)
  \/ \E t \in Threads : store(t)

Spec == Init /\ [][Next]_vars

\* the service configured with AKTOOLS_RATE_LIMIT_MAX_REQUESTS=2
RateInit ==
  /\ Start
  /\ enable_cache \in BOOLEAN
  /\ max_requests = 2
  /\ cache_maxsize = 1
  /\ PROXIES = NoProxies

SpecRate == RateInit /\ [][Next]_vars

\* the service configured with AKTOOLS_CACHE_MAXSIZE=2 and a rate limit of 3,
\* after it has served one request, op1 without arguments, at time 0: the
\* grant is in the queue and the result is the cache's only entry
FirstKey == hashkey("op1", NoArgs)

LRUInit ==
  /\ now = 0
  /\ caps = Ops
  /\ enable_cache = TRUE
  /\ max_requests = 3
  /\ cache_maxsize = 2
  /\ request_timestamps = <<0>>
  /\ lock = NoThread
  /\ api_cache = <<[key |-> FirstKey, value |-> "d1", expires |-> cache_ttl]>>
  /\ pc = [t \in Threads |-> "idle"]
  /\ item_id = [t \in Threads |-> ""]
  /\ eval_str = [t \in Threads |-> NoArgs]
  /\ wake = [t \in Threads |-> 0]
  /\ res = [t \in Threads |-> NoneResult]
  /\ granted = [t \in Threads |-> FALSE]
  /\ called = [t \in Threads |-> FALSE]
  /\ wrote = [t \in Threads |-> FALSE]
  /\ response = NoResp
  /\ lastInvoke = [key |-> FirstKey, payload |-> "d1", status |-> "MISS",
                   solo |-> TRUE, again |-> FALSE]
  /\ storedExp = [k \in Keys |-> IF k = FirstKey THEN cache_ttl ELSE 0]
  /\ evicted = {}
  /\ grantLog = <<0>>
  /\ nreq = 0
  /\ usage = <<FirstKey>>
  /\ inCache = {}
  /\ credit = 0
  /\ DEFAULT_BROWSER_HEADERS = BrowserDefaults
  /\ PROXIES = NoProxies
  /\ kwargs = NoCall
  /\ sent = NoCall

SpecLRU == LRUInit /\ [][Next]_vars

\* the same service with the calls into the cache no longer taken as one
\* step: a thread may be preempted between beginning a lookup or a store and
\* finishing it
RaceInit ==
  /\ Start
  /\ enable_cache = TRUE
  /\ max_requests = 1
  /\ cache_maxsize = 1
  /\ PROXIES = NoProxies

RaceNext ==
  \/ Next
  \/ \E t \in Threads : cache_enter(t)

SpecRace == RaceInit /\ [][RaceNext]_vars

\* the service with the scheduling the code can count on: the clock keeps
\* running, a sleep returns, and (the fair lock of the claim) a thread
\* waiting for the limiter's lock gets it after finitely many releases
FairNext ==
  \/ Next
  \/ SleepTick

FairSpec ==
  /\ Init
  /\ [][FairNext]_vars
  /\ WF_vars(Tick \/ SleepTick)
  /\ \A t \in Threads : WF_vars(acquire_wake(t))
  /\ \A t \in Threads : SF_vars(\E j \in Jitters : acquire(t, j))

\* the request patch on its own: any environment proxy setting, any call
ShaperInit ==
  /\ Start
  /\ enable_cache = TRUE
  /\ max_requests = 1
  /\ cache_maxsize = 1
  /\ PROXIES \in {NoProxies, EnvProxies}

ShaperNext == \E h \in HeaderArgs, p \in ProxyArgs : _patched_request(h, p)

SpecShaper == ShaperInit /\ [][ShaperNext]_vars

\* ================================================================ claims
KeyOf(t) == hashkey(item_id[t], eval_str[t])

\* the step is thread t's first lookup in invoke_ak_api with caching on
LookupStep(t) == pc[t] = "invoke" /\ pc'[t] # "invoke" /\ CacheInUse

\* the step sent thread t past the lookup to _fetch(): a KeyError (miss)
MissStep(t) == LookupStep(t) /\ pc'[t] = "acquire"

\* the step answered thread t's lookup from the cache
HitStep(t) == LookupStep(t) /\ pc'[t] = "idle"

\* C1: rate cap. At every instant the number of recorded grants whose
\* timestamp lies in [now - window_seconds, now] is at most max_requests.
C1_RateCap ==
  Cardinality({i \in DOMAIN grantLog :
                 /\ grantLog[i] >= now - rate_limit_window_seconds
                 /\ grantLog[i] <= now}) <= max_requests

C3_CacheIdempotence ==
  [][\A t \in Threads :
       (/\ LookupStep(t)
        /\ lastInvoke.solo /\ OthersIdle(t)
        /\ lastInvoke.key = KeyOf(t)
        /\ storedExp[KeyOf(t)] > now)
         => (/\ lastInvoke.status \in {"HIT", "MISS"}
             /\ HitStep(t)
             /\ response'.status = "HIT"
             /\ response'.payload = lastInvoke.payload
             /\ ~response'.called /\ ~response'.granted)]_vars

\* C3 witness: the second of two back-to-back invokes of one key returned HIT
\* with a payload, the provider not called
C3_Witness ==
  /\ enable_cache
  /\ lastInvoke.again /\ lastInvoke.status = "HIT"
  /\ response.status = "HIT" /\ response.payload = "d1" /\ ~response.called

\* C4: TTL expiry. A lookup is answered from the cache only while the TTL of
\* the key's last store has not elapsed (now < T + cache_ttl); a lookup that
\* finds an entry with expires <= now takes the miss path; and an invoke that
\* reports MISS has recorded a grant and then run the provider call.
C4_TtlExpiry ==
  /\ [][\A t \in Threads :
          /\ HitStep(t) => storedExp[KeyOf(t)] > now
          /\ (LookupStep(t) /\ KeyOf(t) \in CacheKeys(api_cache)
                /\ EntryOf(api_cache, KeyOf(t)).expires <= now) => MissStep(t)]_vars
  /\ [](response.status = "MISS" => (response.granted /\ response.called))
  /\ [](\A t \in Threads : pc[t] \in {"eval", "store"} => granted[t])

\* C4 witness: a thread looked up a key whose entry had expired and is on the
\* miss path, the expired entry still in the cache's storage
C4_Witness ==
  \E t \in Threads :
    /\ pc[t] = "acquire" /\ enable_cache
    /\ KeyOf(t) \in CacheKeys(api_cache)
    /\ EntryOf(api_cache, KeyOf(t)).expires <= now

\* C5: unknown operation. A request enters invoke_ak_api only with an
\* item_id that is in the capability set at the time of the request; every
\* other request is answered UnknownOperation (404) in the same step, whatever
\* the cache and the rate limiter hold.
C5_UnknownOperation ==
  [][nreq' = nreq + 1 =>
       \/ /\ response'.outcome = "UnknownOperation" /\ response'.code = 404
          /\ pc' = pc /\ api_cache' = api_cache
          /\ request_timestamps' = request_timestamps
       \/ \E t \in Threads :
            /\ pc[t] = "idle" /\ pc'[t] = "invoke"
            /\ item_id'[t] \in caps]_vars

\* C5 witness: UnknownOperation was answered for a name that has a live
\* cache entry (stored while it was a capability) with the window full
C5_Witness ==
  /\ response.outcome = "UnknownOperation"
  /\ response.id \in Ops /\ response.id \notin caps
  /\ \E i \in DOMAIN api_cache :
       api_cache[i].key[1] = response.id /\ api_cache[i].expires > now
  /\ max_requests > 0
  /\ Len(_clean_old_requests(request_timestamps, now)) >= max_requests

C7_EmptyResultNotCached ==
  /\ \A i \in DOMAIN api_cache : api_cache[i].value # NoneResult
  /\ ~(response.outcome = "EmptyResult" /\ response.status = "HIT")

\* C8: faults are never cached. When the provider call raises, no step of
\* that invoke has changed the cache's contents, the raising step leaves the
\* cache as it was, and the key is a miss afterwards if it was one before.
C8_FaultsNotCached ==
  /\ [](response.outcome \in {"InvalidParameters", "ProviderFailure"}
          => ~response.wrote)
  /\ [][\A t \in Threads :
          (pc[t] = "eval" /\ pc'[t] = "idle"
             /\ response'.outcome \in {"InvalidParameters", "ProviderFailure"})
            => /\ api_cache' = api_cache
               /\ (~IsHit(api_cache, KeyOf(t), now)
                     => ~IsHit(api_cache', KeyOf(t), now))]_vars

\* C8 witness: the provider raised with caching enabled and the key of the
\* failed invoke is not in the cache
C8_Witness ==
  /\ enable_cache
  /\ response.outcome \in {"InvalidParameters", "ProviderFailure"}
  /\ response.called /\ response.granted
  /\ api_cache = <<>>

\* C9: every response with outcome Success, EmptyResult, UnknownOperation or
\* InvalidParameters carries a cache-status marker, one of HIT, MISS, DISABLED.
C9_EveryResponseHasCacheStatus ==
  response.outcome \in {"Success", "EmptyResult", "UnknownOperation",
                        "InvalidParameters"}
    => response.status \in {"HIT", "MISS", "DISABLED"}

\* C10: get_remaining_requests() never waits: a thread that has been granted
\* and calls it can take its step even while another thread sleeps in acquire().
C10_RemainingNeverWaits ==
  \A t \in Threads : pc[t] = "remaining" => ENABLED get_remaining_requests(t)

\* C11: acquire() never fails. Whatever max_requests (0 included) and the
\* queue hold, a thread that leaves acquire() does so by sleeping or with a
\* grant recorded, never with an exception, and a sleeper wakes to a grant.
C11_AcquireNeverFails ==
  [][\A t \in Threads :
       /\ (pc[t] = "acquire" /\ pc'[t] # "acquire")
            => (pc'[t] \in {"sleep", "remaining"} /\ response'.code # 500)
       /\ (pc[t] = "sleep" /\ pc'[t] # "sleep")
            => (pc'[t] = "remaining" /\ granted'[t])]_vars

\* C12: blocking when the window is full. A grant recorded by an acquire()
\* that found max_requests unexpired timestamps has a timestamp of at least
\* the oldest of them plus window_seconds, whether it slept or not; acquire()
\* sleeps only when the window is full, so with max_requests = 2 the first
\* two of three back-to-back calls are granted without waiting.
C12_BlockingWhenFull ==
  [][\A t \in Threads :
       LET ts == _clean_old_requests(request_timestamps, now) IN
       /\ (pc[t] = "acquire" /\ pc'[t] = "remaining")
            => /\ request_timestamps'[Len(request_timestamps')] = now
               /\ Len(ts) >= max_requests
                    => now >= Head(ts) + rate_limit_window_seconds
       /\ (pc[t] = "acquire" /\ pc'[t] = "sleep") => Len(ts) >= max_requests
       /\ (pc[t] = "sleep" /\ pc'[t] = "remaining")
            => /\ Len(request_timestamps) >= max_requests
               /\ request_timestamps'[Len(request_timestamps')]
                    >= Head(request_timestamps) + rate_limit_window_seconds]_vars

\* C12 witness: with max_requests = 2 the third request slept in acquire()
\* and has now been granted, at or after the end of its wait
C12_Witness ==
  /\ max_requests = 2 /\ nreq = 3
  /\ \E t \in Threads :
       /\ pc[t] = "remaining" /\ wake[t] > 0 /\ now >= wake[t]
       /\ request_timestamps # <<>>
       /\ request_timestamps[Len(request_timestamps)] = now

\* the unexpired keys of the cache, and the one of them used longest ago
LiveKeys(c, time) == {k \in CacheKeys(c) : IsHit(c, k, time)}

LruOf(u, live) ==
  u[CHOOSE i \in DOMAIN u :
      u[i] \in live /\ \A j \in DOMAIN u : u[j] \in live => i <= j]

\* C13: cache capacity. The cache never holds more than cache_maxsize
\* entries (one per key); a store always leaves its own entry in the cache;
\* a store of a new key into a cache with cache_maxsize unexpired entries
\* removes exactly the unexpired entry that was stored or returned by a lookup
\* longest ago, and no other store removes an unexpired entry.
C13_CacheCapacity ==
  /\ [](Len(api_cache) <= cache_maxsize
          /\ Cardinality(CacheKeys(api_cache)) = Len(api_cache))
  /\ [][\A t \in Threads :
          (pc[t] = "store" /\ pc'[t] = "idle") =>
            LET live == LiveKeys(api_cache, now)
                removed == live \ CacheKeys(api_cache')
            IN  /\ IsHit(api_cache', KeyOf(t), now)
                /\ EntryOf(api_cache', KeyOf(t)).value = res[t]
                /\ IF KeyOf(t) \notin live /\ Cardinality(live) >= cache_maxsize
                     THEN removed = {LruOf(usage, live)}
                     ELSE removed = {}]_vars

\* C13 witness: with cache_maxsize = 2 a store overflowed the cache and
\* removed an entry stored later than an entry that is still there and
\* unexpired: the survivor was returned by a lookup in between
C13_Witness ==
  /\ cache_maxsize = 2 /\ Len(api_cache) = 2
  /\ response.status = "MISS"
  /\ \E e \in evicted, k \in CacheKeys(api_cache) :
       /\ storedExp[e] > storedExp[k]
       /\ IsHit(api_cache, k, now)

\* C14: the Result Cache is protected by mutual exclusion. At no time have
\* two threads begun a cache lookup or store that they have not finished.
C14_CacheMutualExclusion == Cardinality(inCache) <= 1

\* C15: header shaping. The headers handed on are, key by key, the caller's
\* value where the caller's dict has the key and otherwise the browser
\* default (the fixed User-Agent included); without a headers dict (absent or
\* None) they are exactly the full browser set; the caller's arguments and the
\* shared DEFAULT_BROWSER_HEADERS table are left as they were.
C15_HeaderShaping ==
  /\ DEFAULT_BROWSER_HEADERS = BrowserDefaults
  /\ sent.called =>
       LET full == [k \in DOMAIN BrowserDefaults \cup {"User-Agent"} |->
                      IF k = "User-Agent" THEN CHROME_USER_AGENT
                                          ELSE BrowserDefaults[k]]
           h == kwargs.headers
           out == sent.headers.map
       IN  /\ kwargs.called /\ sent.headers.given = "dict"
           /\ h.given \in {"absent", "None"} => out = full
           /\ h.given = "dict" =>
                /\ DOMAIN out = DOMAIN full \cup DOMAIN h.map
                /\ \A k \in DOMAIN out :
                     out[k] = IF k \in DOMAIN h.map THEN h.map[k] ELSE full[k]

\* C15 witness: a call whose headers dict overrides the User-Agent and adds
\* a header of its own went out with both, and with the default Accept
C15_Witness ==
  /\ sent.called /\ kwargs.headers.given = "dict"
  /\ DOMAIN kwargs.headers.map = {"User-Agent", "X-Token"}
  /\ sent.headers.map["User-Agent"] = "c1"
  /\ sent.headers.map["X-Token"] = "c2"
  /\ sent.headers.map["Accept"] = "text/html"

\* C16: duplicate concurrent misses. With caching on nothing suppresses a
\* second invoke of a key that is in flight: a lookup that finds no valid
\* entry goes on to acquire() even while another thread is between its own
\* miss and its store for the same key; every thread that reaches its store
\* has been granted and has called the provider, reports MISS, and leaves
\* its own value as the key's single entry, replacing an earlier one.
C16_DuplicateMisses ==
  [][\A t \in Threads :
       /\ (LookupStep(t) /\ ~IsHit(api_cache, KeyOf(t), now)) => MissStep(t)
       /\ (pc[t] = "store" /\ pc'[t] = "idle") =>
            /\ granted[t] /\ called[t]
            /\ response'.status = "MISS" /\ response'.payload = res[t]
            /\ Cardinality({i \in DOMAIN api_cache' :
                              api_cache'[i].key = KeyOf(t)}) = 1
            /\ EntryOf(api_cache', KeyOf(t)).value = res[t]
            /\ EntryOf(api_cache', KeyOf(t)).expires = now + cache_ttl]_vars

\* C16 witness: one thread has just reported MISS and stored its value for
\* a key while the other, granted and back from the provider with another
\* value for the same key, is about to store over the entry
C16_Witness ==
  /\ response.status = "MISS"
  /\ \E t \in Threads :
       /\ pc[t] = "store" /\ granted[t] /\ called[t]
       /\ lastInvoke.key = KeyOf(t)
       /\ IsHit(api_cache, KeyOf(t), now)
       /\ EntryOf(api_cache, KeyOf(t)).value = response.payload
       /\ res[t] # response.payload

\* C17: no internal retry, admission before the call. Grants and provider
\* calls come one at a time; a grant goes to a thread in acquire() that has
\* none yet for this invoke, a provider call is made by a thread that holds
\* a grant and has not called yet; a provider fault ends the invoke in that
\* step with nothing more recorded in the queue; so the provider calls made
\* never outnumber the grants recorded, and every response that followed a
\* provider call followed a grant.
C17_NoRetryGrantBeforeCall ==
  /\ [](/\ credit >= 0
        /\ credit = Cardinality({t \in Threads : granted[t] /\ ~called[t]})
        /\ \A t \in Threads : called[t] => granted[t])
  /\ [](/\ response.called => response.granted
        /\ response.status \in {"MISS", "DISABLED"}
             => (response.granted /\ response.called))
  /\ [][/\ credit' > credit =>
             /\ credit' = credit + 1
             /\ \E t \in Threads :
                  /\ pc[t] \in {"acquire", "sleep"}
                  /\ ~granted[t] /\ granted'[t]
        /\ credit' < credit =>
             /\ credit' = credit - 1
             /\ \E t \in Threads :
                  /\ pc[t] = "eval" /\ granted[t] /\ ~called[t]
                  /\ called'[t] \/ (pc'[t] = "idle" /\ response'.called)
        /\ \A t \in Threads :
             (pc[t] = "eval" /\ pc'[t] # "eval" /\
                response'.outcome \in {"InvalidParameters", "ProviderFailure"})
               => /\ pc'[t] = "idle" /\ credit' = credit - 1
                  /\ request_timestamps' = request_timestamps]_vars

\* C17 witness: a provider fault ended an invoke that had recorded the only
\* grant in the queue; every grant so far has been followed by its call
C17_Witness ==
  /\ response.outcome \in {"InvalidParameters", "ProviderFailure"}
  /\ response.granted /\ response.called
  /\ Len(request_timestamps) = 1 /\ credit = 0

\* C18: every acquire() terminates after at most one sleep. A thread that
\* starts to sleep holds the lock, keeps it while it sleeps, and sleeps until
\* (oldest + window_seconds) plus a jitter at most; when it wakes the purge
\* has removed at least the oldest timestamp, the grant is recorded in that
\* step and the lock released; and every thread that calls acquire() is
\* eventually granted.
C18_AcquireTerminates ==
  /\ [][\A t \in Threads :
          LET ts == _clean_old_requests(request_timestamps, now) IN
          /\ (pc[t] = "acquire" /\ pc'[t] = "sleep")
               => /\ lock' = t
                  /\ wake'[t] > Head(ts) + rate_limit_window_seconds
                  /\ wake'[t] <= now + wait_time(ts, now) + MaxJitter
          /\ (pc[t] = "sleep" /\ pc'[t] = "sleep") => lock' = t
          /\ (pc[t] = "sleep" /\ pc'[t] # "sleep")
               => /\ pc'[t] = "remaining" /\ granted'[t]
                  /\ lock = t /\ lock' = NoThread
                  /\ Len(request_timestamps') <= Len(request_timestamps)]_vars
  /\ \A t \in Threads : (pc[t] = "acquire") ~> granted[t]

\* C19: a cache hit and an UnknownOperation rejection consume no admission.
\* The step that answers HIT, and the step that answers UnknownOperation,
\* leave the timestamp queue and the lock as they were, record no grant, make
\* no provider call, and leave the cache's contents (keys, values, expiry
\* times) as they were.
C19_NoAdmissionConsumed ==
  [][/\ \A t \in Threads :
          HitStep(t) =>
            /\ response'.status = "HIT"
            /\ ~response'.granted /\ ~response'.called /\ ~response'.wrote
            /\ request_timestamps' = request_timestamps /\ lock' = lock
            /\ grantLog' = grantLog /\ credit' = credit
            /\ Contents(api_cache') = Contents(api_cache)
     /\ (nreq' # nreq /\ response'.outcome = "UnknownOperation") =>
            /\ ~response'.granted /\ ~response'.called /\ ~response'.wrote
            /\ request_timestamps' = request_timestamps /\ lock' = lock
            /\ grantLog' = grantLog /\ credit' = credit
            /\ api_cache' = api_cache /\ pc' = pc]_vars

\* C19 witness: after a miss and a hit on its entry, a request for an
\* unknown name was rejected; the queue holds the one grant of the miss and
\* the cache its one entry
C19_Witness ==
  /\ response.outcome = "UnknownOperation"
  /\ lastInvoke.status = "HIT"
  /\ Len(request_timestamps) = 1 /\ Len(api_cache) = 1 /\ credit = 0

\* the timestamps of ts that a window ending at time still contains
Unexpired(ts, time) ==
  {i \in DOMAIN ts : ts[i] >= time - rate_limit_window_seconds}

\* C20: admission window state. Whenever the limiter's lock is free, the
\* queue holds at most max_requests timestamps, in non-decreasing order, and
\* get_remaining_requests() returns max_requests minus the number of
\* unexpired timestamps, a value in 0..max_requests.
C20_WindowState ==
  lock = NoThread =>
    /\ Len(request_timestamps) <= max_requests
    /\ \A i, j \in DOMAIN request_timestamps :
         i < j => request_timestamps[i] <= request_timestamps[j]
    /\ RemainingRequests(request_timestamps, now) \in 0..max_requests
    /\ RemainingRequests(request_timestamps, now) =
         max_requests - Cardinality(Unexpired(request_timestamps, now))

====
